---- MODULE Spec2Model ----
(***************************************************************************)
(* Model of forti_api_tools.py: the response interpreter (get_json,        *)
(* check_response and the POST/PUT/DELETE wrappers of class FGT) and the   *)
(* route pruner fnt_tools.routes_remove_non_default, run against an        *)
(* appliance whose static route table is numbered by position.             *)
(*                                                                         *)
(* Python values are modelled as follows.  A dict is a record, and a key   *)
(* lookup d["k"] on a record without the field k raises KeyError.  The     *)
(* JSON key "seq-num" is written seq_num.  A requests.Response is a record *)
(* [kind, value]: kind "RequestException" (the request raised), "NotJson"  *)
(* (response.json() raises an error that is no UnicodeDecodeError),        *)
(* "Undecodable" (response.json() raises UnicodeDecodeError) or "Json"     *)
(* (response.json() returns value).                                        *)
(* Printed lines are strings.  The results True, False and None of the     *)
(* Python functions are the strings "True", "False" and "None".            *)
(***************************************************************************)
EXTENDS Integers, Sequences, FiniteSets, TLC

VARIABLES
    appliance,         \* the appliance's static route table, seq-num = position
    second,            \* FALSE during the first pruning run, TRUE during the second
    first,             \* how the first run ended (set when the second one starts)
    pc,                \* position of routes_remove_non_default
    body,              \* the Response of GET cmdb/router/static/
    fetched,           \* the appliance's table at the moment of the GET
    results,           \* res_dict["results"]
    routes_to_delete,  \* the local list routes_to_delete
    idx,               \* position in routes_to_delete of the next route of the loop
    requests,          \* seq-nums of the DELETE requests issued so far, in order
    replies,           \* the Response each of those DELETE requests got
    removed,           \* what the appliance removed: [seq_num, device] per successful DELETE
    stdout,            \* lines printed by the run
    call,              \* response interpreter: which function was called
    res,               \* response interpreter: the Response
    verbose,           \* response interpreter: check_response's flag
    ret                \* response interpreter: what the call produced

vars == <<appliance, second, first, pc, body, fetched, results, routes_to_delete,
          idx, requests, replies, removed, stdout, call, res, verbose, ret>>

prunerVars == <<appliance, second, first, pc, body, fetched, results,
                routes_to_delete, idx, requests, replies, removed, stdout>>

interpVars == <<call, res, verbose, ret>>

-----------------------------------------------------------------------------
(* Bounds *)

MaxRoutes == 3

-----------------------------------------------------------------------------
(* Responses *)

RequestException == [kind |-> "RequestException"]

NotJson == [kind |-> "NotJson"]

Undecodable == [kind |-> "Undecodable"]

Json(v) == [kind |-> "Json", value |-> v]

EmptyJson == <<>>

StatusCodes ==
    {-1, 0, 1, 100, 199, 200, 201, 204, 302, 399, 400, 401, 402, 403, 404, 405,
     406, 423, 424, 425, 499, 500, 501, 503, 999}

-----------------------------------------------------------------------------
(* get_json and check_response *)

\* get_json(response): response.json(), or False when it raises; out is the
\* line printed on the way.
get_json(response) ==
    IF response.kind = "Json"
    THEN [ok |-> TRUE, rjson |-> response.value, out |-> <<>>]
    ELSE IF response.kind = "Undecodable"
    THEN [ok |-> FALSE, rjson |-> EmptyJson,
          out |-> <<"Cannot decode json data in HTTP response">>]
    ELSE [ok |-> FALSE, rjson |-> EmptyJson, out |-> <<"sys.exc_info()[0]">>]

\* Python truth value of what get_json returned: False, {} and [] are falsy.
Truthy(g) == g.ok /\ DOMAIN g.rjson # {}

\* The line check_response prints for a status other than 200.
StatusMessage(status) ==
    CASE status = 400 -> "400 Invalid request format"
      [] status = 403 -> "403 Permission denied"
      [] status = 404 -> "404 None existing resource"
      [] status = 405 -> "405 Unsupported method"
      [] status = 424 -> "424 Dependency error"
      [] status = 500 -> "500 Internal server error"
      [] OTHER -> ToString(status) \o " Unknown error"

\* pprint(rjson) of the verbose mode, abstracted to one line.
PPrint(g) == IF g.ok THEN "pprint(rjson)" ELSE "False"

\* check_response when every status from 200 to 299 counts as success.
check_response_2xx(r, verb) ==
    LET g == get_json(r)
        pre == g.out \o (IF verb THEN <<PPrint(g)>> ELSE <<>>)
    IN  IF ~Truthy(g)
        THEN [ret |-> "None", exc |-> "",
              out |-> pre \o <<"Failed to retrieve JSON response">>]
        ELSE IF "http_status" \notin DOMAIN g.rjson
        THEN [ret |-> "None", exc |-> "KeyError", out |-> pre]
        ELSE LET status == g.rjson.http_status
             IN  IF status >= 200 /\ status < 300
                 THEN [ret |-> "True", exc |-> "",
                       out |-> pre \o (IF verb THEN <<"200 successful request">> ELSE <<>>)]
                 ELSE [ret |-> "False", exc |-> "",
                       out |-> pre \o <<StatusMessage(status)>>]

\* check_response(res, verbose): [ret, exc, out] where ret is the value returned
\* ("True", "False", "None"), exc the exception raised ("" when none) and out the
\* lines printed.
check_response(r, verb) ==
    LET g == get_json(r)
        pre == g.out \o (IF verb THEN <<PPrint(g)>> ELSE <<>>)
    IN  IF ~Truthy(g)
        THEN [ret |-> "None", exc |-> "",
              out |-> pre \o <<"Failed to retrieve JSON response">>]
        ELSE IF "http_status" \notin DOMAIN g.rjson
        THEN [ret |-> "None", exc |-> "KeyError", out |-> pre]
        ELSE LET status == g.rjson.http_status
             IN  IF status = 200
                 THEN [ret |-> "True", exc |-> "",
                       out |-> pre \o (IF verb THEN <<"200 successful request">> ELSE <<>>)]
                 ELSE [ret |-> "False", exc |-> "",
                       out |-> pre \o <<StatusMessage(status)>>]

\* FGT.post / FGT.put / FGT.delete once requests.<verb> has answered r:
\* a RequestException is printed and the process exits, anything else goes
\* to check_response(res, False).
SendRequest(r) ==
    IF r.kind = "RequestException"
    THEN [ret |-> "None", exc |-> "SystemExit", out |-> <<"RequestException">>]
    ELSE check_response(r, FALSE)

post(r) == SendRequest(r)

put(r) == SendRequest(r)

delete(r) == SendRequest(r)

-----------------------------------------------------------------------------
(* The appliance *)

DefaultDst == "0.0.0.0 0.0.0.0"

Dsts == {DefaultDst, "10.0.0.0 255.0.0.0"}

DeviceName(n) == "port" \o ToString(n)

\* The static route tables the appliance can start with: up to MaxRoutes routes,
\* each with its own outgoing interface.  A route's seq-num is its position.
Tables ==
    UNION { { [i \in 1..n |-> [dst |-> d[i], device |-> DeviceName(i)]] :
              d \in [1..n -> Dsts] } : n \in 0..MaxRoutes }

\* The entries of GET cmdb/router/static/ for a table.
Render(table) ==
    [i \in 1..Len(table) |->
        [seq_num |-> i, dst |-> table[i].dst, device |-> table[i].device]]

\* The entries of a table in any order.
OrderedLists(table) ==
    LET n == Len(table)
        R == Render(table)
    IN  { [i \in 1..n |-> R[p[i]]] : p \in Permutations(1..n) }

\* The dict e without the key f.
WithoutKey(e, f) == [k \in (DOMAIN e) \ {f} |-> e[k]]

\* The result lists a GET can carry for a table: its entries in any order, and
\* the damaged lists (in table order or in reverse table order) in which one
\* entry lacks a key or repeats the seq-num of another entry.
ResultLists(table) ==
    LET n == Len(table)
        R == Render(table)
        TwoOrders == {R, [i \in 1..n |-> R[n + 1 - i]]}
    IN  OrderedLists(table)
        \cup { [T EXCEPT ![j] = WithoutKey(T[j], f)] :
                 T \in TwoOrders, j \in 1..n, f \in {"seq_num", "dst", "device"} }
        \cup { [T EXCEPT ![j].seq_num = T[l].seq_num] :
                 T \in TwoOrders, j \in 1..n, l \in 1..n }

\* The Responses the GET can get.
GetReplies(table) ==
    {RequestException, NotJson, Json([http_status |-> 404])}
    \cup { Json([results |-> T]) : T \in ResultLists(table) }

\* The appliance's table after it deletes the route at seq-num k: the routes
\* after it move down by one.
ApplianceDelete(table, k) ==
    [i \in 1..(Len(table) - 1) |-> IF i < k THEN table[i] ELSE table[i + 1]]

\* What can happen to DELETE cmdb/router/static/k: the appliance deletes the
\* route at k and answers 200, or deletes it and the answer is lost, or it
\* deletes nothing and the request fails.
DeleteOutcomes(table, k) ==
    { [done |-> TRUE, reply |-> r] :
        r \in IF k \in DOMAIN table
              THEN {Json([http_status |-> 200]), RequestException}
              ELSE {} }
    \cup { [done |-> FALSE, reply |-> r] :
             r \in {RequestException, NotJson, Json([status |-> "error"]),
                    Json([http_status |-> 403]), Json([http_status |-> 999])} }

-----------------------------------------------------------------------------
(* routes_remove_non_default *)

returnSeqNum(e) == e.seq_num

HasKey(e, k) == k \in DOMAIN e

\* The filter when it takes the first entry for the default route.
NonDefaultAfterFirst(T) ==
    IF T = <<>> THEN <<>> ELSE SelectSeq(Tail(T), LAMBDA route : route.dst # DefaultDst)

\* The loop of lines 259-261: the routes whose dst is not the default one.
NonDefault(T) == SelectSeq(T, LAMBDA route : route.dst # DefaultDst)

RECURSIVE InsertReverse(_, _)
\* e placed after every element of the sorted list whose key is at least e's.
InsertReverse(sorted, e) ==
    IF sorted = <<>> THEN <<e>>
    ELSE IF returnSeqNum(Head(sorted)) >= returnSeqNum(e)
         THEN <<Head(sorted)>> \o InsertReverse(Tail(sorted), e)
         ELSE <<e>> \o sorted

RECURSIVE StableReverse(_)
StableReverse(l) ==
    IF l = <<>> THEN <<>>
    ELSE InsertReverse(StableReverse(SubSeq(l, 1, Len(l) - 1)), l[Len(l)])

\* The list as list.sort(key=returnSeqNum) leaves it, without reverse=True.
sort_forward(l) ==
    LET d == StableReverse(l)
    IN  [i \in 1..Len(d) |-> d[Len(d) + 1 - i]]

\* The list as it is when the sort is lost (a sorted copy that is thrown away).
sort_unsorted(l) == l

\* list.sort(reverse=True, key=returnSeqNum): descending by key, entries with
\* equal keys in their original order.
sort_reverse(l) == StableReverse(l)

\* Lines 231-263 on the Response r of the GET: [exc, results, plan].
FetchAndPlan(r) ==
    LET fail(e, T) == [exc |-> e, results |-> T, plan |-> <<>>]
    IN  IF r.kind = "RequestException" THEN fail("SystemExit", <<>>)
        ELSE IF r.kind = "NotJson" THEN fail("JSONDecodeError", <<>>)
        ELSE IF ~HasKey(r.value, "results") THEN fail("KeyError", <<>>)
        ELSE LET T == r.value.results
             IN  IF \E j \in DOMAIN T : ~HasKey(T[j], "dst") THEN fail("KeyError", T)
                 ELSE IF \E j \in DOMAIN NonDefault(T) : ~HasKey(NonDefault(T)[j], "seq_num")
                      THEN fail("KeyError", T)
                      ELSE [exc |-> "", results |-> T,
                            plan |-> sort_reverse(NonDefault(T))]

DeleteUrl(route) == "cmdb/router/static/" \o ToString(route.seq_num)

\* One pass of the loop of lines 268-271 for route, the DELETE having got the
\* Response r: [exc, out].
LoopBody(route, r) ==
    LET d == delete(r)
    IN  IF d.exc # "" THEN [exc |-> d.exc, out |-> d.out]
        ELSE IF ~HasKey(route, "device")
             THEN [exc |-> "KeyError", out |-> d.out \o <<DeleteUrl(route)>>]
             ELSE [exc |-> "", out |-> d.out \o <<DeleteUrl(route), route.device>>]

NoCall == [ret |-> "None", exc |-> "", out |-> <<>>]

NoFirst == [pc |-> "Idle", honest |-> FALSE, issued |-> 0, removed |-> 0]

\* The GET answered with the appliance's own table, entry for entry, in some
\* order.
Honest ==
    /\ body.kind = "Json"
    /\ HasKey(body.value, "results")
    /\ Len(body.value.results) = Len(fetched)
    /\ \A i \in DOMAIN fetched :
         \E j \in DOMAIN body.value.results : body.value.results[j] = Render(fetched)[i]

\* The Deletion Plan has been built: the run got past line 263.
Planned == pc \in {"Deleting", "Done"} \/ requests # <<>>

InitPruner ==
    /\ appliance \in Tables
    /\ second = FALSE
    /\ first = NoFirst
    /\ pc = "Idle"
    /\ body = NotJson
    /\ fetched = <<>>
    /\ results = <<>>
    /\ routes_to_delete = <<>>
    /\ idx = 1
    /\ requests = <<>>
    /\ replies = <<>>
    /\ removed = <<>>
    /\ stdout = <<>>

IdleInterp ==
    /\ call = "none"
    /\ res = NotJson
    /\ verbose = FALSE
    /\ ret = NoCall

Init == InitPruner /\ IdleInterp

\* Lines 231-263: the GET, json.loads, the filter and the sort.
Fetch ==
    /\ pc = "Idle"
    /\ \E r \in GetReplies(appliance) :
         LET f == FetchAndPlan(r)
         IN  /\ body' = r
             /\ fetched' = appliance
             /\ results' = f.results
             /\ routes_to_delete' = f.plan
             /\ stdout' = IF f.exc = "SystemExit" THEN <<"RequestException">> ELSE <<>>
             /\ pc' = IF f.exc = "SystemExit" THEN "Exited"
                      ELSE IF f.exc # "" THEN "Raised"
                      ELSE IF f.plan = <<>> THEN "Done"
                      ELSE "Deleting"
    /\ idx' = 1
    /\ UNCHANGED <<appliance, second, first, requests, replies, removed>>
    /\ UNCHANGED interpVars

\* Lines 268-271: one pass of the loop, with the appliance's side of the DELETE.
Delete ==
    /\ pc = "Deleting"
    /\ LET route == routes_to_delete[idx]
           k == route.seq_num
       IN  \E o \in DeleteOutcomes(appliance, k) :
             LET b == LoopBody(route, o.reply)
             IN  /\ requests' = Append(requests, k)
                 /\ replies' = Append(replies, o.reply)
                 /\ appliance' = IF o.done THEN ApplianceDelete(appliance, k) ELSE appliance
                 /\ removed' = IF o.done
                               THEN Append(removed, [seq_num |-> k, device |-> appliance[k].device])
                               ELSE removed
                 /\ stdout' = stdout \o b.out
                 /\ pc' = IF b.exc = "SystemExit" THEN "Exited"
                          ELSE IF b.exc # "" THEN "Raised"
                          ELSE IF idx = Len(routes_to_delete) THEN "Done"
                          ELSE "Deleting"
                 /\ idx' = IF b.exc = "" THEN idx + 1 ELSE idx
    /\ UNCHANGED <<second, first, body, fetched, results, routes_to_delete>>
    /\ UNCHANGED interpVars

\* The workflow is run a second time against the same appliance.
Rerun ==
    /\ ~second
    /\ pc \in {"Done", "Raised", "Exited"}
    /\ second' = TRUE
    /\ first' = [pc |-> pc, honest |-> Honest,
                 issued |-> Len(requests), removed |-> Len(removed)]
    /\ pc' = "Idle"
    /\ body' = NotJson
    /\ fetched' = <<>>
    /\ results' = <<>>
    /\ routes_to_delete' = <<>>
    /\ idx' = 1
    /\ requests' = <<>>
    /\ replies' = <<>>
    /\ removed' = <<>>
    /\ stdout' = <<>>
    /\ UNCHANGED appliance
    /\ UNCHANGED interpVars

Next == Fetch \/ Delete \/ Rerun

Spec == Init /\ [][Next]_vars

-----------------------------------------------------------------------------
(* The response interpreter on its own: one call of post, put, delete or     *)
(* check_response on a Response.                                             *)

Responses ==
    {RequestException, NotJson, Undecodable, Json(EmptyJson), Json([status |-> "error"])}
    \cup { Json([http_status |-> s]) : s \in StatusCodes }
    \cup { Json([http_status |-> s, status |-> "error"]) : s \in StatusCodes }

FixedPruner ==
    /\ appliance = <<>>
    /\ second = FALSE
    /\ first = NoFirst
    /\ pc = "Idle"
    /\ body = NotJson
    /\ fetched = <<>>
    /\ results = <<>>
    /\ routes_to_delete = <<>>
    /\ idx = 1
    /\ requests = <<>>
    /\ replies = <<>>
    /\ removed = <<>>
    /\ stdout = <<>>

InitInterp ==
    /\ FixedPruner
    /\ call = "none"
    /\ res \in Responses
    /\ verbose \in BOOLEAN
    /\ ret = NoCall

CallPost ==
    /\ call = "none"
    /\ call' = "post"
    /\ ret' = post(res)
    /\ UNCHANGED <<res, verbose>>
    /\ UNCHANGED prunerVars

CallPut ==
    /\ call = "none"
    /\ call' = "put"
    /\ ret' = put(res)
    /\ UNCHANGED <<res, verbose>>
    /\ UNCHANGED prunerVars

CallDelete ==
    /\ call = "none"
    /\ call' = "delete"
    /\ ret' = delete(res)
    /\ UNCHANGED <<res, verbose>>
    /\ UNCHANGED prunerVars

CallCheckResponse ==
    /\ call = "none"
    /\ res.kind # "RequestException"
    /\ call' = "check_response"
    /\ ret' = check_response(res, verbose)
    /\ UNCHANGED <<res, verbose>>
    /\ UNCHANGED prunerVars

NextInterp == CallPost \/ CallPut \/ CallDelete \/ CallCheckResponse

SpecInterp == InitInterp /\ [][NextInterp]_vars

-----------------------------------------------------------------------------
(* Properties of the route pruner (checked under Spec) *)

Count(l, e) == Cardinality({i \in DOMAIN l : l[i] = e})

IsSuccess(r) == r.kind = "Json" /\ HasKey(r.value, "http_status") /\ r.value.http_status = 200

\* C1: when the GET shows the appliance's own table and the appliance moves the
\* later routes down after each deletion, every DELETE that succeeds removes the
\* route that held that seq-num in the fetched table, whichever DELETEs fail, and
\* every default route of the fetched table is still on the appliance.
C1_SafeDeletion ==
    Honest =>
        /\ \A j \in DOMAIN removed :
             /\ removed[j].seq_num \in DOMAIN fetched
             /\ removed[j].device = fetched[removed[j].seq_num].device
        /\ \A i \in DOMAIN fetched :
             fetched[i].dst = DefaultDst =>
                 \E a \in DOMAIN appliance : appliance[a] = fetched[i]

\* A run over a table with a default route in which the first DELETE failed
\* and the second one removed its route.
C1_Witness ==
    /\ Honest
    /\ pc = "Done"
    /\ \E i \in DOMAIN fetched : fetched[i].dst = DefaultDst
    /\ Len(requests) = 2
    /\ ~IsSuccess(replies[1])
    /\ IsSuccess(replies[2])
    /\ Len(removed) = 1
    /\ removed[1].seq_num = requests[2]

\* C2: the Deletion Plan holds no entry of the fetched table whose dst is the
\* default one, holds every other entry as often as the table does, and holds
\* nothing else.
C2_PlanIsFilter ==
    Planned =>
        /\ \A i \in DOMAIN results :
             Count(routes_to_delete, results[i]) =
                 IF results[i].dst = DefaultDst THEN 0 ELSE Count(results, results[i])
        /\ \A j \in DOMAIN routes_to_delete :
             \E i \in DOMAIN results : results[i] = routes_to_delete[j]

\* A plan built from a table that has a default route and two other routes.
C2_Witness ==
    /\ Planned
    /\ Len(results) = 3
    /\ Len(routes_to_delete) = 2
    /\ \E i \in DOMAIN results : results[i].dst = DefaultDst

DistinctSeqNums(T) ==
    \A i, j \in DOMAIN T :
        /\ HasKey(T[i], "seq_num")
        /\ (i # j => T[i].seq_num # T[j].seq_num)

\* C3: when the fetched entries have distinct seq-nums, each DELETE issued
\* targets a seq-num smaller than that of every DELETE issued before it.
C3_DescendingRequests ==
    (Planned /\ DistinctSeqNums(results)) =>
        \A a, b \in DOMAIN requests : a < b => requests[a] > requests[b]

\* Two DELETEs issued for a table that listed the second route before the first.
C3_Witness ==
    /\ Planned
    /\ DistinctSeqNums(results)
    /\ Len(requests) >= 2
    /\ \E i, j \in DOMAIN results :
         /\ i < j
         /\ results[i].seq_num = requests[2]
         /\ results[j].seq_num = requests[1]

RunOver == pc \in {"Done", "Raised", "Exited"}

PlanSeqNums == [i \in DOMAIN routes_to_delete |-> routes_to_delete[i].seq_num]

\* The failure outcomes C4 names: a vendor status code, a body that is not
\* JSON, a transport error.
C4_NamedOutcome(r) ==
    \/ r.kind = "RequestException"
    \/ r.kind = "NotJson"
    \/ r.kind = "Json" /\ HasKey(r.value, "http_status")

\* C4: once the plan is built the run issues one DELETE for every route of the
\* plan, in plan order, whatever the outcome of each DELETE (vendor error code,
\* malformed body or transport error).
C4_EveryRouteAttempted ==
    (/\ RunOver
     /\ Planned
     /\ Honest
     /\ \A j \in DOMAIN replies : C4_NamedOutcome(replies[j]))
    => requests = PlanSeqNums

\* The fetch failures C5 names: the GET fails, the body is not JSON, the
\* results key is missing, or an entry lacks dst or seq-num.
C5_FetchFails(r) ==
    \/ r.kind = "RequestException"
    \/ r.kind = "NotJson"
    \/ r.kind = "Json" /\ ~HasKey(r.value, "results")
    \/ /\ r.kind = "Json"
       /\ HasKey(r.value, "results")
       /\ \E i \in DOMAIN r.value.results :
            ~HasKey(r.value.results[i], "dst") \/ ~HasKey(r.value.results[i], "seq_num")

\* C5: a run whose fetch step fails never issues a DELETE.
C5_NoDeleteAfterFailedFetch ==
    (pc # "Idle" /\ C5_FetchFails(body)) => requests = <<>>

DuplicateSeqNums(T) ==
    \E i, j \in DOMAIN T :
        /\ i # j
        /\ HasKey(T[i], "seq_num")
        /\ HasKey(T[j], "seq_num")
        /\ T[i].seq_num = T[j].seq_num

\* C6: when two fetched entries carry the same seq-num the run aborts before
\* planning, so that it never issues a DELETE.
C6_DuplicatesAbort ==
    (/\ pc # "Idle"
     /\ body.kind = "Json"
     /\ HasKey(body.value, "results")
     /\ DuplicateSeqNums(body.value.results))
    => requests = <<>>

\* The lines a report entry for the i-th route of the plan has to carry: the
\* route's seq-num (its DELETE URL), its destination, and, when its DELETE did
\* not succeed, the failure kind of that DELETE.
C9_EntryFor(i) ==
    LET route == routes_to_delete[i]
        d == delete(replies[i])
    IN  \E a \in DOMAIN stdout :
          /\ stdout[a] = DeleteUrl(route)
          /\ \E b \in DOMAIN stdout : stdout[b] = route.dst
          /\ (~IsSuccess(replies[i]) =>
                (a > 1 /\ d.out # <<>> /\ stdout[a - 1] = d.out[Len(d.out)]))

\* C9: a run that reaches Done has reported, for every route of the plan, an
\* entry pairing the route (seq-num and destination) with the outcome of its
\* own DELETE.
C9_OutcomesReported ==
    pc = "Done" => \A i \in DOMAIN routes_to_delete : C9_EntryFor(i)

\* C10 as stated: the second of two runs in succession against the same
\* appliance, each fetching the appliance's own table, builds an empty plan.
C10_SecondPlanEmpty ==
    (/\ second
     /\ first.pc = "Done"
     /\ first.honest
     /\ Honest
     /\ Planned)
    => routes_to_delete = <<>>

\* C10, amended: when the first run reached Done on the appliance's own table
\* and every DELETE it issued removed its route, the plan the second run builds
\* from the appliance's own table is empty.
C10_SecondPlanEmptyAfterCleanRun ==
    (/\ second
     /\ first.pc = "Done"
     /\ first.honest
     /\ first.removed = first.issued
     /\ Honest
     /\ Planned)
    => routes_to_delete = <<>>

\* A second run that fetched what a first run of two successful DELETEs left.
C10_Witness ==
    /\ second
    /\ first.pc = "Done"
    /\ first.honest
    /\ first.issued = 2
    /\ first.removed = 2
    /\ Honest
    /\ pc = "Done"
    /\ Len(fetched) = 1
    /\ routes_to_delete = <<>>

-----------------------------------------------------------------------------
(* Properties of the response interpreter (checked under SpecInterp) *)

\* The failure category C7 gives for a status, as the line that names it.
C7_Category(s) ==
    IF s = 400 THEN "400 Invalid request format"
    ELSE IF s = 403 THEN "403 Permission denied"
    ELSE IF s = 404 THEN "404 None existing resource"
    ELSE IF s = 405 THEN "405 Unsupported method"
    ELSE IF s = 424 THEN "424 Dependency error"
    ELSE IF s = 500 THEN "500 Internal server error"
    ELSE ToString(s) \o " Unknown error"

\* C7: for a body that is a JSON object with http_status s, check_response,
\* post, put and delete return True exactly when s = 200 and False otherwise,
\* and for s other than 200 they report the one category mapped to s.
C7_StatusMapping ==
    (/\ call # "none"
     /\ res.kind = "Json"
     /\ HasKey(res.value, "http_status"))
    => LET s == res.value.http_status
           told == SelectSeq(ret.out, LAMBDA line : line # "pprint(rjson)")
       IN  /\ ret.exc = ""
           /\ ret.ret = (IF s = 200 THEN "True" ELSE "False")
           /\ s # 200 => told = <<C7_Category(s)>>

\* delete has interpreted a body whose http_status is 204.
C7_Witness ==
    /\ call = "delete"
    /\ res = Json([http_status |-> 204])
    /\ ret.ret = "False"
    /\ ret.out = <<"204 Unknown error">>

\* C8: for a body that is not JSON, post, put and delete return False, and
\* check_response does not go on to read http_status.
C8_NotJsonReturnsFalse ==
    (call \in {"post", "put", "delete"} /\ res.kind \in {"NotJson", "Undecodable"})
    => (ret.ret = "False" /\ ret.exc = "")

====
